---- MODULE Spec2Model ----
(***************************************************************************)
(* dependency-timeline: the history walk (get_commits_for_file), the       *)
(* per-commit sampler (search_in_file and the three lock-file adapters)    *)
(* and the compaction loop of main, as one state machine.                  *)
(*                                                                         *)
(* An Option<String> is a sequence: None is <<>>, Some(v) is <<v>>.        *)
(* A Result<Option<String>> is [ok |-> BOOLEAN, version |-> Option].       *)
(***************************************************************************)
EXTENDS Naturals, Sequences, FiniteSets, TLC

VARIABLES
    parents,            \* repository: commit -> sequence of parent commits
    time,               \* repository: commit -> commit time in seconds
    tree,               \* repository: commit -> blob id at file_path (0: no entry)
    file_name,          \* file_path.file_name()
    library,            \* args.library
    pc,                 \* position of main
    outcome,            \* "running", "ok" (Ok(())), "error" (Err), "panic"
    queue,              \* revwalk: commits waiting in the time-sorted queue
    seen,               \* revwalk: commits ever enqueued
    commits,            \* get_commits_for_file: the Vec being built
    sampled,            \* flat_map: how many of commits search_in_file has taken
    results,            \* main: the collected SearchResults, newest first
    cursor,             \* main: how many results iter.rev() has not yet yielded
    previous_version,   \* main: previous_version
    printed,            \* the lines written by println!, in order
    lock_content,       \* adapter check: the content handed to the adapter
    lock_result         \* adapter check: what the adapter returned

vars == <<parents, time, tree, file_name, library, pc, outcome, queue, seen,
          commits, sampled, results, cursor, previous_version, printed,
          lock_content, lock_result>>

----------------------------------------------------------------------------
(* Bounds *)

MaxCommits == 3
MaxTime == 2
MaxSamples == 4
MaxPkgs == 3

----------------------------------------------------------------------------
(* Values *)

NoVersion == <<>>
Some(v) == <<v>>

Versions == {"1.0.0", "2.0.0"}
OptVersions == {NoVersion} \cup {Some(v) : v \in Versions}

Libraries == {"acme/foo", "acme/bar"}

FileNames == {"composer.lock", "Cargo.lock", "package-lock.json", "deps.lock"}

Err == [ok |-> FALSE, version |-> NoVersion]
Ok(v) == [ok |-> TRUE, version |-> v]

(* A blob's content: enc is "utf8" or "binary"; a text is "json", "toml"   *)
(* or "garbage"; shape says whether its package collection is a "list" of  *)
(* records or a "map" from key to record; pkgs are the records in document *)
(* order, each [name, version] with version an Option (a missing field).   *)
Content(enc, syntax, shape, pkgs) ==
    [enc |-> enc, syntax |-> syntax, shape |-> shape, pkgs |-> pkgs]

Pkg(name, version) == [name |-> name, version |-> version]

----------------------------------------------------------------------------
(* Lock-file adapters *)

guess_from_file_name(name) ==
    CASE name = "composer.lock" -> Some("Composer")
      [] name = "Cargo.lock" -> Some("Cargo")
      [] name = "package-lock.json" -> Some("Npm")
      [] OTHER -> NoVersion

(* serde: a Vec<{name: String, version: String}> needs every record's      *)
(* version field.                                                          *)
DeserializesAsList(content, syntax) ==
    /\ content.syntax = syntax
    /\ content.shape = "list"
    /\ \A i \in 1..Len(content.pkgs) : content.pkgs[i].version # NoVersion

(* serde: a HashMap<String, {version: Option<String>}>.                    *)
DeserializesAsMap(content, syntax) ==
    /\ content.syntax = syntax
    /\ content.shape = "map"

(* The mutation: the last matching record instead of the first.            *)
RECURSIVE find_last(_, _, _)
find_last(pkgs, name, i) ==
    IF i > Len(pkgs) THEN 0
    ELSE LET later == find_last(pkgs, name, i + 1)
         IN  IF later # 0 THEN later
             ELSE IF pkgs[i].name = name THEN i ELSE 0

(* Iterator::find: the first element, in order, the predicate accepts;     *)
(* 0 when there is none.                                                   *)
RECURSIVE find(_, _, _)
find(pkgs, name, i) ==
    IF i > Len(pkgs) THEN 0
    ELSE IF pkgs[i].name = name THEN i
    ELSE find(pkgs, name, i + 1)

find_package(pkgs, name) == find(pkgs, name, 1)

composer_get_library_version(content, lib) ==
    IF ~DeserializesAsList(content, "json") THEN Err
    ELSE LET package == find_package(content.pkgs, lib)
         IN  IF package # 0
             THEN Ok(Some(content.pkgs[package].version[1]))
             ELSE Ok(NoVersion)

cargo_get_library_version(content, lib) ==
    IF ~DeserializesAsList(content, "toml") THEN Err
    ELSE LET package == find_package(content.pkgs, lib)
         IN  IF package # 0
             THEN Ok(Some(content.pkgs[package].version[1]))
             ELSE Ok(NoVersion)

(* HashMap::get after deserialization: of several entries with one key the *)
(* last one inserted is the one the map holds.                             *)
RECURSIVE map_get(_, _, _)
map_get(pkgs, key, i) ==
    IF i = 0 THEN 0
    ELSE IF pkgs[i].name = key THEN i
    ELSE map_get(pkgs, key, i - 1)

npm_get_library_version(content, lib) ==
    IF ~DeserializesAsMap(content, "json") THEN Err
    ELSE LET entry == map_get(content.pkgs, "node_modules/" \o lib,
                              Len(content.pkgs))
         IN  IF entry # 0 /\ content.pkgs[entry].version # NoVersion
             THEN Ok(Some(content.pkgs[entry].version[1]))
             ELSE Ok(NoVersion)

get_library_version(file_type, content, lib) ==
    CASE file_type = "Composer" -> composer_get_library_version(content, lib)
      [] file_type = "Cargo" -> cargo_get_library_version(content, lib)
      [] file_type = "Npm" -> npm_get_library_version(content, lib)

----------------------------------------------------------------------------
(* The object store's blobs. Blob ids are content hashes: different ids,   *)
(* different contents.                                                     *)

Blobs == <<
    Content("binary", "garbage", "list", <<>>),
    Content("utf8", "garbage", "list", <<>>),
    Content("utf8", "json", "list", <<Pkg("acme/foo", Some("1.0.0"))>>),
    Content("utf8", "json", "list",
            <<Pkg("acme/bar", Some("1.0.0")), Pkg("acme/foo", Some("2.0.0"))>>),
    Content("utf8", "json", "list", <<Pkg("acme/bar", Some("1.0.0"))>>),
    Content("utf8", "toml", "list", <<Pkg("acme/foo", Some("1.0.0"))>>),
    Content("utf8", "json", "map",
            <<Pkg("node_modules/acme/foo", Some("2.0.0"))>>)
>>

BlobIds == 1..Len(Blobs)

----------------------------------------------------------------------------
(* Version Sampler *)

date_from_commit(c) == time[c]

(* The mutation: a content the adapter cannot parse counts as a file       *)
(* without the library instead of an Err.                                  *)
search_in_file_lenient(c) ==
    IF tree[c] = 0 THEN [status |-> "err", version |-> NoVersion, date |-> 0]
    ELSE LET content == Blobs[tree[c]]
             file_type == guess_from_file_name(file_name)
         IN  IF content.enc # "utf8"
             THEN [status |-> "err", version |-> NoVersion, date |-> 0]
             ELSE IF file_type = NoVersion
             THEN [status |-> "panic", version |-> NoVersion, date |-> 0]
             ELSE [status |-> "ok",
                   version |-> get_library_version(file_type[1], content,
                                                   library).version,
                   date |-> date_from_commit(c)]

(* search_in_file: "err" is an Err the flat_map drops, "panic" is todo!(). *)
search_in_file(c) ==
    IF tree[c] = 0 THEN [status |-> "err", version |-> NoVersion, date |-> 0]
    ELSE LET content == Blobs[tree[c]]
             file_type == guess_from_file_name(file_name)
         IN  IF content.enc # "utf8"
             THEN [status |-> "err", version |-> NoVersion, date |-> 0]
             ELSE IF file_type = NoVersion
             THEN [status |-> "panic", version |-> NoVersion, date |-> 0]
             ELSE LET version ==
                          get_library_version(file_type[1], content, library)
                  IN  IF ~version.ok
                      THEN [status |-> "err", version |-> NoVersion, date |-> 0]
                      ELSE [status |-> "ok", version |-> version.version,
                            date |-> date_from_commit(c)]

SearchResult(r) == [version |-> r.version, date |-> r.date]

----------------------------------------------------------------------------
(* History Filter *)

Commits == 1..MaxCommits

head == MaxCommits

(* Sort::TIME: the next commit is one of the latest ones in the queue.     *)
IsNextRev(c) ==
    /\ c \in queue
    /\ \A d \in queue : time[d] <= time[c]

has_parent(c) == Len(parents[c]) > 0

(* The mutation: the commit is compared with every parent, not only with  *)
(* the first.                                                              *)
diff_deltas_any_parent(parent, c) ==
    IF \E i \in 1..Len(parents[c]) : tree[parents[c][i]] # tree[c]
    THEN 1 ELSE 0

(* diff_tree_to_tree(parent_tree, tree) under the pathspec file_path: the  *)
(* number of deltas.                                                       *)
diff_deltas(parent, c) == IF tree[parent] # tree[c] THEN 1 ELSE 0

(* The mutation: a best-effort walk, which keeps the commits found before *)
(* the failure.                                                            *)
walk_error_ignored == [pc |-> "sample", outcome |-> "running"]

(* What the `?` of get_commits_for_file and of main do with an Err.        *)
walk_error == [pc |-> "done", outcome |-> "error"]

(* The steps of one loop iteration that can return Err.                    *)
WalkSteps == {"rev", "find_commit", "tree", "parent_tree", "diff"}

(* The steps the iteration for c goes through.                             *)
StepsOf(c) ==
    IF has_parent(c) THEN WalkSteps ELSE {"rev", "find_commit", "tree"}

PushParents(c) ==
    LET new == {parents[c][i] : i \in 1..Len(parents[c])} \ seen
    IN  /\ queue' = (queue \ {c}) \cup new
        /\ seen' = seen \cup new

Repo == <<parents, time, tree, file_name, library>>
Lock == <<lock_content, lock_result>>
Compaction == <<results, cursor, previous_version, printed>>

(* revwalk(), push_head(), set_sorting().                                  *)
PushHead ==
    /\ pc = "start"
    /\ \/ /\ pc' = "walk"
          /\ queue' = {head}
          /\ seen' = {head}
          /\ UNCHANGED outcome
       \/ /\ pc' = walk_error.pc
          /\ outcome' = walk_error.outcome
          /\ UNCHANGED <<queue, seen>>
    /\ UNCHANGED <<Repo, Lock, Compaction, commits, sampled>>

(* One iteration of `for rev in revwalk`.                                  *)
WalkNext ==
    /\ pc = "walk"
    /\ \E c \in Commits :
        /\ IsNextRev(c)
        /\ \/ /\ PushParents(c)
              /\ commits' =
                    IF ~has_parent(c) THEN Append(commits, c)
                    ELSE IF diff_deltas(parents[c][1], c) > 0
                    THEN Append(commits, c)
                    ELSE commits
              /\ UNCHANGED <<pc, outcome>>
           \/ /\ \E step \in StepsOf(c) :
                    /\ pc' = walk_error.pc
                    /\ outcome' = walk_error.outcome
              /\ UNCHANGED <<queue, seen, commits>>
    /\ UNCHANGED <<Repo, Lock, Compaction, sampled>>

(* The revwalk is exhausted: Ok(commits).                                  *)
WalkDone ==
    /\ pc = "walk"
    /\ queue = {}
    /\ pc' = "sample"
    /\ UNCHANGED <<Repo, Lock, Compaction, outcome, queue, seen, commits,
                   sampled>>

(* One element of the flat_map over commits.                               *)
Sample ==
    /\ pc = "sample"
    /\ sampled < Len(commits)
    /\ LET r == search_in_file(commits[sampled + 1])
       IN  \/ /\ r.status = "ok"
              /\ results' = Append(results, SearchResult(r))
              /\ sampled' = sampled + 1
              /\ UNCHANGED <<pc, outcome, cursor>>
           \/ /\ r.status = "err"
              /\ sampled' = sampled + 1
              /\ UNCHANGED <<pc, outcome, results, cursor>>
           \/ /\ r.status = "panic"
              /\ pc' = "done"
              /\ outcome' = "panic"
              /\ UNCHANGED <<sampled, results, cursor>>
    /\ UNCHANGED <<Repo, Lock, queue, seen, commits, previous_version,
                   printed>>

(* collect::<Vec<_>>() and results.into_iter().                            *)
Collect ==
    /\ pc = "sample"
    /\ sampled = Len(commits)
    /\ pc' = "compact"
    /\ cursor' = Len(results)
    /\ UNCHANGED <<Repo, Lock, outcome, queue, seen, commits, sampled,
                   results, previous_version, printed>>

----------------------------------------------------------------------------
(* Timeline Compactor *)

(* The mutation: the loop without .rev().                                  *)
next_result_forward(rs, n) == rs[Len(rs) - n + 1]

(* iter.rev(): the next result is the last one not yet yielded.            *)
next_result(rs, n) == rs[n]

(* The mutation: previous_version is never assigned.                       *)
update_previous_never(prev, result) == prev

(* previous_version = result.version.clone()                               *)
update_previous(prev, result) == result.version

(* result.version.unwrap_or_else(|| "None".to_string())                    *)
unwrap_or_none(version) == IF version = NoVersion THEN "None" ELSE version[1]

(* What one println! writes: the version as shown and the date; version is *)
(* the Option the line was written for.                                    *)
Line(result) ==
    [version |-> result.version,
     shown |-> unwrap_or_none(result.version),
     date |-> result.date]

(* One iteration of `for result in iter.rev()`.                            *)
CompactStep ==
    /\ pc = "compact"
    /\ cursor > 0
    /\ LET result == next_result(results, cursor)
       IN  \/ /\ result.version = previous_version
              /\ UNCHANGED <<previous_version, printed>>
           \/ /\ result.version # previous_version
              /\ previous_version' = update_previous(previous_version, result)
              /\ printed' = Append(printed, Line(result))
    /\ cursor' = cursor - 1
    /\ UNCHANGED <<Repo, Lock, pc, outcome, queue, seen, commits, sampled,
                   results>>

(* The loop is over: Ok(()).                                               *)
CompactDone ==
    /\ pc = "compact"
    /\ cursor = 0
    /\ pc' = "done"
    /\ outcome' = "ok"
    /\ UNCHANGED <<Repo, Lock, Compaction, queue, seen, commits, sampled>>

----------------------------------------------------------------------------
(* The whole run of main over a repository.                                *)

(* Commit graphs: a parent is an older object than its child (a lower id), *)
(* a commit has at most two parents, all different.                        *)
ParentLists(c) ==
    {<<>>} \cup {<<p>> : p \in 1..(c - 1)}
           \cup {<<p, q>> : <<p, q>> \in
                    {pq \in (1..(c - 1)) \X (1..(c - 1)) : pq[1] # pq[2]}}

Graphs == {g \in [Commits -> UNION {ParentLists(c) : c \in Commits}] :
              \A c \in Commits : g[c] \in ParentLists(c)}

InitRun ==
    /\ pc = "start"
    /\ outcome = "running"
    /\ queue = {}
    /\ seen = {}
    /\ commits = <<>>
    /\ sampled = 0
    /\ results = <<>>
    /\ cursor = 0
    /\ previous_version = NoVersion
    /\ printed = <<>>

InitLockIdle ==
    /\ lock_content = Blobs[1]
    /\ lock_result = Err

Init ==
    /\ parents \in Graphs
    /\ time \in [Commits -> 1..MaxTime]
    /\ tree \in [Commits -> {0} \cup BlobIds]
    /\ file_name \in FileNames
    /\ library = "acme/foo"
    /\ InitRun
    /\ InitLockIdle

Next ==
    \/ PushHead
    \/ WalkNext
    \/ WalkDone
    \/ Sample
    \/ Collect
    \/ CompactStep
    \/ CompactDone

Spec == Init /\ [][Next]_vars

----------------------------------------------------------------------------
(* The compaction loop alone, over every sample sequence.                  *)

Samples == [version : OptVersions, date : 1..MaxTime]

SampleSeqs == UNION {[1..n -> Samples] : n \in 0..MaxSamples}

InitRepoIdle ==
    /\ parents = [c \in Commits |-> <<>>]
    /\ time = [c \in Commits |-> 1]
    /\ tree = [c \in Commits |-> 0]
    /\ queue = {}
    /\ seen = {}
    /\ commits = <<>>
    /\ sampled = 0
    /\ outcome = "running"

InitCompact ==
    /\ InitRepoIdle
    /\ InitLockIdle
    /\ file_name = "composer.lock"
    /\ library = "acme/foo"
    /\ pc = "compact"
    /\ results \in SampleSeqs
    /\ cursor = Len(results)
    /\ previous_version = NoVersion
    /\ printed = <<>>

NextCompact ==
    \/ CompactStep
    \/ CompactDone

SpecCompact == InitCompact /\ [][NextCompact]_vars

----------------------------------------------------------------------------
(* The adapters alone, over every document.                                *)

PkgNames == Libraries \cup {"node_modules/acme/foo"}

Pkgs == [name : PkgNames, version : OptVersions]

PkgLists == UNION {[1..n -> Pkgs] : n \in 0..MaxPkgs}

Documents ==
    [enc : {"utf8"}, syntax : {"json", "toml", "garbage"},
     shape : {"list", "map"}, pkgs : PkgLists]

(* file_type.get_library_version(&content, library) for a file name that   *)
(* has a file type.                                                        *)
Extract ==
    /\ pc = "lock"
    /\ pc' = "lock_done"
    /\ lock_result' =
          get_library_version(guess_from_file_name(file_name)[1],
                              lock_content, library)
    /\ UNCHANGED <<Repo, Compaction, lock_content, outcome, queue, seen,
                   commits, sampled>>

InitLock ==
    /\ InitRepoIdle
    /\ file_name \in {f \in FileNames : guess_from_file_name(f) # NoVersion}
    /\ library \in Libraries
    /\ lock_content \in Documents
    /\ lock_result = Err
    /\ pc = "lock"
    /\ results = <<>>
    /\ cursor = 0
    /\ previous_version = NoVersion
    /\ printed = <<>>

NextLock == Extract

SpecLock == InitLock /\ [][NextLock]_vars

----------------------------------------------------------------------------
(* Properties of the compaction loop (checked under SpecCompact).          *)

(* The samples oldest first, as iter.rev() yields them.                    *)
Oldest == Len(results)

(* C1: no two consecutive printed timeline entries have equal version      *)
(* values, two absent versions counting as equal.                          *)
C1_NoAdjacentDuplicates ==
    \A i \in 1..(Len(printed) - 1) : printed[i].version # printed[i + 1].version

C1_Witness ==
    /\ pc = "done"
    /\ Len(results) = 4
    /\ Len(printed) = 2
    /\ \E i \in 1..2 : printed[i].version = NoVersion

(* C2: when the oldest sample has an absent version, the first timeline    *)
(* entry is (absent, that sample's timestamp).                             *)
C2_OldestAbsentIsFirstEntry ==
    (pc = "done" /\ results # <<>> /\ results[Oldest].version = NoVersion)
        => /\ printed # <<>>
           /\ printed[1].version = NoVersion
           /\ printed[1].date = results[Oldest].date

(* C3: a sample sequence of length one, whatever its version, produces     *)
(* exactly one timeline entry.                                             *)
C3_SingleSampleOneEntry ==
    (pc = "done" /\ Len(results) = 1) => Len(printed) = 1

(* The positions, in results, at which a maximal run of consecutive        *)
(* equal-version samples starts when the samples are read oldest first.    *)
RunStart(i) ==
    i = Oldest \/ results[i].version # results[i + 1].version

RECURSIVE RunEntries(_)
RunEntries(i) ==
    IF i = 0 THEN <<>>
    ELSE IF RunStart(i) THEN <<Line(results[i])>> \o RunEntries(i - 1)
    ELSE RunEntries(i - 1)

(* C8: there is exactly one timeline entry per maximal run of consecutive  *)
(* equal-version samples, and it carries the run's earliest sample's       *)
(* timestamp.                                                              *)
C8_OneEntryPerRun ==
    pc = "done" => printed = RunEntries(Oldest)

(* C10: a non-empty timeline ends on the version of the newest sample, the *)
(* first element of the newest-first sample sequence.                      *)
C10_LastEntryIsNewestVersion ==
    (pc = "done" /\ printed # <<>>)
        => printed[Len(printed)].version = results[1].version

C10_Witness ==
    /\ pc = "done"
    /\ Len(results) >= 3
    /\ Len(printed) >= 2
    /\ results[1].version = results[2].version
    /\ results[1].version # results[Oldest].version

----------------------------------------------------------------------------
(* Properties of the adapters (checked under SpecLock).                    *)

ListSyntax(name) == IF name = "composer.lock" THEN "json" ELSE "toml"

WellFormedList ==
    /\ file_name \in {"composer.lock", "Cargo.lock"}
    /\ lock_content.syntax = ListSyntax(file_name)
    /\ lock_content.shape = "list"
    /\ \A i \in 1..Len(lock_content.pkgs) :
           lock_content.pkgs[i].version # NoVersion

Matches == {i \in 1..Len(lock_content.pkgs) :
               lock_content.pkgs[i].name = library}

(* C9: for composer.lock and Cargo.lock and a well-formed package list,    *)
(* get_library_version returns the version of the first record, in list    *)
(* order, whose name equals the library name, and absent, not an error,    *)
(* when no record matches.                                                 *)
C9_FirstMatchingRecord ==
    (pc = "lock_done" /\ WellFormedList)
        => /\ lock_result.ok
           /\ Matches = {} => lock_result.version = NoVersion
           /\ \A i \in Matches :
                  (\A j \in Matches : i <= j)
                      => lock_result.version = lock_content.pkgs[i].version

C9_Witness ==
    /\ pc = "lock_done"
    /\ WellFormedList
    /\ Len(lock_content.pkgs) = 3
    /\ Matches = {2, 3}
    /\ lock_content.pkgs[2].version # lock_content.pkgs[3].version
    /\ lock_result = Ok(lock_content.pkgs[2].version)

----------------------------------------------------------------------------
(* Properties of the whole run (checked under Spec).                       *)

InCommits(c) == \E i \in 1..Len(commits) : commits[i] = c

(* The commits whose loop iteration in get_commits_for_file has completed. *)
Visited == seen \ queue

(* C6: get_commits_for_file keeps a visited commit if and only if it has   *)
(* no first parent or its tree differs from its first parent's tree at the *)
(* target path, whatever its other parents; it keeps no commit twice.      *)
C6_KeptIffRootOrFirstParentDiff ==
    /\ \A c \in Visited :
           InCommits(c) <=>
               (parents[c] = <<>> \/ tree[parents[c][1]] # tree[c])
    /\ \A c \in Commits \ Visited : ~InCommits(c)
    /\ \A i, j \in 1..Len(commits) : commits[i] = commits[j] => i = j

C6_Witness ==
    /\ pc = "sample"
    /\ \E c \in Visited :
           /\ Len(parents[c]) = 2
           /\ tree[c] # 0
           /\ tree[parents[c][1]] = tree[c]
           /\ tree[parents[c][2]] # tree[c]
           /\ ~InCommits(c)
           /\ \E r \in Visited : parents[r] = <<>> /\ InCommits(r)

(* C7: a failure of the history walk ends the run in an error with nothing *)
(* printed, whatever was visited before it; nothing is sampled or printed  *)
(* from a walk that did not reach its end.                                 *)
C7_WalkFailureAbortsRun ==
    /\ outcome = "error" => (pc = "done" /\ results = <<>> /\ printed = <<>>)
    /\ (results # <<>> \/ printed # <<>>) => queue = {}
    /\ queue # {} => pc \in {"walk", "done"}

C7_Witness ==
    /\ outcome = "error"
    /\ Len(commits) = 2
    /\ \A i \in 1..2 : search_in_file(commits[i]).status = "ok"
    /\ search_in_file(commits[1]).version # search_in_file(commits[2]).version

FileType == guess_from_file_name(file_name)

HasBlob(c) == tree[c] # 0

IsText(c) == HasBlob(c) /\ Blobs[tree[c]].enc = "utf8"

Parses(c) ==
    /\ IsText(c)
    /\ FileType # NoVersion
    /\ get_library_version(FileType[1], Blobs[tree[c]], library).ok

SampleOf(c) ==
    [version |->
         get_library_version(FileType[1], Blobs[tree[c]], library).version,
     date |-> time[c]]

(* The samples of the first n commits, leaving out the commits that fail.  *)
RECURSIVE SamplesOf(_)
SamplesOf(n) ==
    IF n = 0 THEN <<>>
    ELSE IF Parses(commits[n])
    THEN Append(SamplesOf(n - 1), SampleOf(commits[n]))
    ELSE SamplesOf(n - 1)

WalkSucceeded == pc \in {"sample", "compact"} \/ outcome \in {"ok", "panic"}

(* C4 as stated: each of the four per-sample failures, an unknown file     *)
(* name among them, only removes its commit; the run finishes normally     *)
(* with the sample of every other commit.                                  *)
C4_FourFailuresOnlyDropTheCommit ==
    WalkSucceeded
        => /\ outcome # "panic"
           /\ pc \in {"compact", "done"} => results = SamplesOf(Len(commits))

(* C4 as amended: a missing blob, a blob that is not text and a content    *)
(* the adapter cannot parse each only remove their commit, and the run     *)
(* finishes normally with the sample of every other commit; a file name of *)
(* no known format makes the run panic, with nothing printed, at the first *)
(* qualifying commit whose blob is text.                                   *)
C4_ThreeFailuresOnlyDropTheCommit ==
    WalkSucceeded
        => /\ results = SamplesOf(sampled)
           /\ pc \in {"compact", "done"} /\ outcome # "panic"
                  => sampled = Len(commits)
           /\ outcome = "panic"
                  <=> /\ pc = "done"
                      /\ FileType = NoVersion
                      /\ sampled < Len(commits)
                      /\ IsText(commits[sampled + 1])
           /\ outcome = "panic" => printed = <<>>
           /\ FileType = NoVersion
                  => \A i \in 1..sampled : ~IsText(commits[i])

C4_Witness ==
    /\ outcome = "ok"
    /\ Len(commits) = 3
    /\ Len(results) = 1
    /\ \E i, j, k \in 1..3 :
           /\ ~HasBlob(commits[i])
           /\ IsText(commits[j]) /\ ~Parses(commits[j])
           /\ Parses(commits[k])

====
